---- MODULE Spec2Model ----
(***************************************************************************)
(* udpproxy (src/udp.c): the ordered work queue shared by the directory    *)
(* watcher thread (event_loop -> scan_dir -> add_by_file_name ->           *)
(* add_file_after) and the sender thread (on_request -> send_file ->       *)
(* remove_list_file), with the gap filler (copy_dummy_file) running inside *)
(* the sender.                                                             *)
(*                                                                         *)
(* A file name is a sequence of one-character strings.  A queued segment   *)
(* is a record [timestamp, dummy_flag, file_path]; the list g_ctx.head is  *)
(* the sequence `head`, first element = list head.                         *)
(***************************************************************************)
EXTENDS Integers, Sequences, FiniteSets, TLC

\* ------------------------------------------------------------------ bounds
\* Capacity of the list.  The program's value is 512 (udp.c:44); the model
\* scales it down so that the full-queue case is reached.
MAX_UDP_FILE_COUNT == 3
\* Total number of inotify events generated in one run.
MaxEvents == 2
\* Size of send_buf and largest datagram payload.  The program's value is
\* 4096 (udp.c:47); the model scales it down so that a file of a few bytes
\* takes several chunks.
UDP_PACKET_SIZE == 2
\* Largest size of a file that is sent byte by byte.
MaxFileLen == 3
\* The failed sendto calls counted for one file.
MaxSendErrors == 1
\* Width of int in bits.  The program's int has 32 bits; the model scales
\* it down so that digit runs of three and four digits exceed it.
INT_BITS == 10

\* --------------------------------------------------------------- constants
TIME_SCALE == 1000000

\* ------------------------------------------------------------- file names
N1 == <<"1">>
N2 == <<"2">>
N3 == <<"3">>
N10 == <<"1", "0">>
N2dummy == <<"2", ".", "d", "u", "m", "m", "y">>
N0 == <<"0">>
N07 == <<"0", "7">>
N3a == <<"3", "a">>
Na9 == <<"a", "9">>
N100 == <<"1", "0", "0">>
N100tmp == <<"1", "0", "0", ".", "t", "m", "p">>
N200dummy == <<"2", "0", "0", ".", "d", "u", "m", "m", "y">>
N5dummytmp == <<"5", ".", "d", "u", "m", "m", "y", ".", "t", "m", "p">>
N7tmpdummy == <<"7", ".", "t", "m", "p", ".", "d", "u", "m", "m", "y">>
Nabc == <<"a", "b", "c">>
\* The entries every directory has.
Dot == <<".">>
DotDot == <<".", ".">>

\* Names an external producer may drop into the work directory.
EnvNames == {N1, N2, N3, N2dummy}
\* Possible contents of the work directory when the process starts.
InitDirs == {{}, {N2, N10}, {N1, N3}}

DigitChars == <<"0", "1", "2", "3", "4", "5", "6", "7", "8", "9">>

IsDigit(ch) == \E i \in 1..10 : DigitChars[i] = ch

DigitVal(ch) == (CHOOSE i \in 1..10 : DigitChars[i] = ch) - 1

\* Character codes (ASCII) of the characters that occur in file names.
CharCode(ch) ==
    IF IsDigit(ch) THEN 48 + DigitVal(ch)
    ELSE CASE ch = "." -> 46
           [] ch = "a" -> 97
           [] ch = "b" -> 98
           [] ch = "c" -> 99
           [] ch = "d" -> 100
           [] ch = "m" -> 109
           [] ch = "p" -> 112
           [] ch = "t" -> 116
           [] ch = "u" -> 117
           [] ch = "y" -> 121
           [] OTHER -> 122

RECURSIVE strtoi_loop(_, _, _)
strtoi_loop(s, i, num) ==
    IF i > Len(s) \/ ~IsDigit(s[i]) THEN num
    ELSE strtoi_loop(s, i + 1, num * 10 + DigitVal(s[i]))

RECURSIVE Pow2(_)
Pow2(k) == IF k = 0 THEN 1 ELSE 2 * Pow2(k - 1)

\* The number of values of int, and the smallest of them.
INT_RANGE == Pow2(INT_BITS)
INT_MIN == -Pow2(INT_BITS - 1)

\* Conversion of an int64_t value to int: the value modulo 2^INT_BITS, in
\* -2^(INT_BITS-1) .. 2^(INT_BITS-1) - 1.
to_int(num) == ((num - INT_MIN) % INT_RANGE) + INT_MIN

\* strtoi: the value of the leading digit run, accumulated in an int64_t and
\* returned as int.
strtoi(s) == to_int(strtoi_loop(s, 1, 0))

\* strrchr(filename, '.'): the tail of the name from its last '.', or <<>>
\* (NULL) when the name has no '.'.
strchr_dot(s) ==
    LET dots == {i \in 1..Len(s) : s[i] = "."}
    IN  IF dots = {} THEN <<>>
        ELSE LET k == CHOOSE i \in dots : \A j \in dots : i <= j
             IN  SubSeq(s, k, Len(s))

\* strrchr(filename, '.'): the part of the name from its last dot on, empty
\* when the name has no dot.
strrchr_dot(s) ==
    LET dots == {i \in 1..Len(s) : s[i] = "."}
    IN  IF dots = {} THEN <<>>
        ELSE LET k == CHOOSE i \in dots : \A j \in dots : j <= i
             IN  SubSeq(s, k, Len(s))

SUFFIX_TMP == <<".", "t", "m", "p">>
SUFFIX_DUMMY == <<".", "d", "u", "m", "m", "y">>

\* sprintf("%lld", n) for n >= 0.
RECURSIVE itoa(_)
itoa(n) ==
    IF n < 10 THEN <<DigitChars[n + 1]>>
    ELSE Append(itoa(n \div 10), DigitChars[(n % 10) + 1])

\* strcmp(a, b) < 0
RECURSIVE StrLess(_, _)
StrLess(a, b) ==
    IF b = <<>> THEN FALSE
    ELSE IF a = <<>> THEN TRUE
    ELSE IF CharCode(Head(a)) # CharCode(Head(b))
         THEN CharCode(Head(a)) < CharCode(Head(b))
    ELSE StrLess(Tail(a), Tail(b))

\* alphasort: the names in lexicographic order.
RECURSIVE alphasort(_)
alphasort(S) ==
    IF S = {} THEN <<>>
    ELSE LET m == CHOOSE x \in S : \A y \in S \ {x} : StrLess(x, y)
         IN  <<m>> \o alphasort(S \ {m})


\* ------------------------------------------------------------ the list
\* A slip in the linking: the new entry goes in front of the entry at index i.
list_add_before(q, i, new) == SubSeq(q, 1, i - 1) \o <<new>> \o SubSeq(q, i, Len(q))

\* list_add(new, pos): link `new` right after the entry at index i.
list_add(q, i, new) == SubSeq(q, 1, i) \o <<new>> \o SubSeq(q, i + 1, Len(q))

\* add_file_tail: list_add_tail(new, &g_ctx.head).
add_file_tail(q, new) == Append(q, new)

\* The loop of add_file_after without its test for an equal timestamp.
RECURSIVE add_file_after_loop_no_equal_test(_, _, _)
add_file_after_loop_no_equal_test(q, i, position) ==
    IF i = 0
    THEN IF Len(q) = 0
         THEN [list |-> add_file_tail(q, position), added |-> TRUE, signal |-> FALSE]
         ELSE [list |-> q, added |-> FALSE, signal |-> FALSE]
    ELSE IF q[i].timestamp <= position.timestamp
         THEN [list |-> list_add(q, i, position), added |-> TRUE, signal |-> TRUE]
    ELSE add_file_after_loop_no_equal_test(q, i - 1, position)

\* The list_for_each_prev_safe loop of add_file_after, at the entry with
\* index i (i = 0: the loop has reached the list head and ends).  The result
\* is the list, whether file_count was incremented, and whether wait_cond
\* was signalled.  After the loop file_item is NULL only when the list had
\* no entry at all.
RECURSIVE add_file_after_loop(_, _, _)
add_file_after_loop(q, i, position) ==
    IF i = 0
    THEN IF Len(q) = 0
         THEN [list |-> add_file_tail(q, position), added |-> TRUE, signal |-> FALSE]
         ELSE [list |-> q, added |-> FALSE, signal |-> FALSE]
    ELSE IF q[i].timestamp = position.timestamp
         THEN [list |-> q, added |-> FALSE, signal |-> FALSE]
    ELSE IF q[i].timestamp < position.timestamp
         THEN [list |-> list_add(q, i, position), added |-> TRUE, signal |-> TRUE]
    ELSE add_file_after_loop(q, i - 1, position)

add_file_after(q, position) == add_file_after_loop(q, Len(q), position)

\* The wait loop's test, off by one.
list_full_off_by_one(n) == n > MAX_UDP_FILE_COUNT

\* The test of add_by_file_name's wait loop,
\* while (g_ctx.file_count >= MAX_UDP_FILE_COUNT).
list_full(n) == n >= MAX_UDP_FILE_COUNT

\* The first entry is returned instead of the last.
get_list_first(q) == IF Len(q) = 0 THEN <<>> ELSE <<q[1]>>

\* get_list_tail: the last entry, or NULL (<<>>) for an empty list.
get_list_tail(q) == IF Len(q) = 0 THEN <<>> ELSE <<q[Len(q)]>>

\* ------------------------------------------------------------------ state
VARIABLES
    file_list,               \* g_ctx.head: the linked list, head first
    file_count,              \* g_ctx.file_count
    file_list_mutex,         \* owner of g_ctx.file_list_mutex
    file_list_cond,          \* a signal on file_list_cond reached the waiting watcher
    wait_cond,               \* a signal on wait_cond reached the waiting sender
    sent_timestamp,          \* g_ctx.sent_timestamp
    stream_start_timestamp,  \* g_ctx.stream_start_timestamp
    dummy_file_path,         \* g_ctx.dummy_file_path is set
    wpc,                     \* watcher thread: position in event_loop
    first_scan,              \* event_loop's first_scan
    namelist,                \* scan_dir: entries not yet handed to add_by_file_name
    buf,                     \* event_loop: events of the last read not yet handled
    tmp,                     \* add_by_file_name: descriptor held across pthread_cond_wait
    wret,                    \* where add_by_file_name returns to after the wait
    spc,                     \* sender thread: position in on_request
    dir,                     \* names of the files in work_dir
    events,                  \* inotify events not yet read
    nEvents,                 \* number of events generated so far
    start_wait_interval,     \* g_ctx.start_wait_interval (microseconds)
    current_timestamp,       \* what get_current_time returns in wait_time when
                             \* the first segment is scheduled
    exit,                    \* g_ctx.exit
    reads_after_exit,        \* history: reads the watcher completed with
                             \* g_ctx.exit set (counted up to 2)
    startup,                 \* what main reads and writes before it
                             \* creates the two threads, a record; neither
                             \* thread writes any of it:
                             \*   mpc: main thread, position in main
                             \*   argv: the options of the command line,
                             \*     in order
                             \*   optind: getopt_long, the next option of
                             \*     argv
                             \*   conf: udpproxy.conf, its scalar keywords
                             \*     in order
                             \*   kp: main, the next keyword of conf
                             \*   ip_addr, port, work_dir: the fields of
                             \*     g_ctx of these names
    sending,                 \* send_file's transmission loop, a record:
                             \*   file: the bytes of the file being sent
                             \*   offset: the file offset of file_fd
                             \*   file_len: file_item->file_len
                             \*   send_buf: the bytes readn stored in
                             \*     g_ctx.send_buf
                             \*   read_bytes, send_bytes, total_send_bytes:
                             \*     send_file's locals of these names
                             \*   datagrams (history): the payloads sendto
                             \*     accepted, in order, for this file
                             \*   send_errors (history): failed sendto
                             \*     calls, counted up to MaxSendErrors
    log,                     \* history: segments handed to send_file, in order
    last                     \* history: the last operation on the list

vars == <<file_list, file_count, file_list_mutex, file_list_cond, wait_cond,
          sent_timestamp, stream_start_timestamp, dummy_file_path,
          wpc, first_scan, namelist, buf, tmp, wret, spc,
          dir, events, nEvents, start_wait_interval, current_timestamp,
          exit, reads_after_exit,
          startup, sending, log, last>>

\* send_file's transmission loop before its first statement.  The actions
\* that take send_file as one step leave `sending` alone.
NotSending ==
    [file |-> <<>>, offset |-> 0, file_len |-> 0, send_buf |-> <<>>,
     read_bytes |-> 0, send_bytes |-> 0, total_send_bytes |-> 0,
     datagrams |-> <<>>, send_errors |-> 0]

\* Set before the threads start; no statement of the two threads writes
\* them (g_ctx.exit is only read).
fixed == <<start_wait_interval, current_timestamp, exit, reads_after_exit,
           startup, sending>>

NoSeg == [file_path |-> <<>>, timestamp |-> 0, dummy_flag |-> 0]

NoOp == [op |-> "none", seg |-> NoSeg, pre |-> <<>>, added |-> FALSE, signal |-> FALSE]

\* The null pointer, told apart from every string: a string is a sequence of
\* single characters.
NULL == <<"NULL">>

\* One option as getopt_long hands it to main: the letter it returns and
\* optarg.
option(c, optarg) == [c |-> c, optarg |-> optarg]

\* main has read the command line "-i a -p 1 --work_dir=c", found no keyword
\* in udpproxy.conf, created the two threads and waits in pthread_join.
Started ==
    startup = [mpc |-> "join",
               argv |-> <<option("i", <<"a">>), option("p", N1),
                          option("w", <<"c">>)>>,
               optind |-> 4,
               conf |-> <<>>,
               kp |-> 1,
               ip_addr |-> <<"a">>,
               port |-> 1,
               work_dir |-> <<"c">>]

\* udp_init and the two threads at the first statement of their functions.
InitWorkers ==
    /\ file_list = <<>>
    /\ file_count = 0
    /\ file_list_mutex = "free"
    /\ file_list_cond = FALSE
    /\ wait_cond = FALSE
    /\ sent_timestamp = 0
    /\ stream_start_timestamp = -1
    /\ dummy_file_path \in BOOLEAN
    /\ wpc = "loop"
    /\ first_scan = 1
    /\ namelist = <<>>
    /\ buf = <<>>
    /\ tmp = NoSeg
    /\ wret = "none"
    /\ spc = "check"
    /\ events = <<>>
    /\ nEvents = 0
    /\ exit = 0
    /\ reads_after_exit = 0
    /\ sending = NotSending
    /\ log = <<>>
    /\ last = NoOp

\* udp_init, main (configuration read, threads created), but for the pacing
\* configuration.
InitCommon == InitWorkers /\ Started

\* The default configuration: udp_init leaves start_wait_interval at 0, and
\* wait_time then never sleeps, whatever the clock shows.
Init ==
    /\ InitCommon
    /\ dir \in InitDirs
    /\ start_wait_interval = 0
    /\ current_timestamp = 0

\* ---------------------------------------------------------- environment
\* struct inotify_event: the name of the entry and the bits of its mask.
inotify_event(n, m) == [name |-> n, mask |-> m]

\* event_loop: the test of event->mask, with && binding tighter than ||;
\* IN_MOVE is IN_MOVED_FROM | IN_MOVED_TO.
event_passes(mask) ==
    \/ ("IN_ISDIR" \notin mask /\ "IN_CREATE" \in mask)
    \/ "IN_ATTRIB" \in mask
    \/ "IN_MODIFY" \in mask
    \/ ("IN_MOVED_FROM" \in mask \/ "IN_MOVED_TO" \in mask)

\* An external producer creates a file in work_dir, or writes to one that is
\* there; inotify queues an IN_CREATE or an IN_MODIFY event for it.
Notify(n) ==
    /\ UNCHANGED fixed
    /\ nEvents < MaxEvents
    /\ nEvents' = nEvents + 1
    /\ dir' = dir \cup {n}
    /\ events' = Append(events,
                        inotify_event(n, IF n \in dir THEN {"IN_MODIFY"}
                                                     ELSE {"IN_CREATE"}))
    /\ UNCHANGED <<file_list, file_count, file_list_mutex, file_list_cond,
                   wait_cond, sent_timestamp, stream_start_timestamp,
                   dummy_file_path, wpc, first_scan, namelist, buf, tmp,
                   wret, spc, log, last>>

EnvNotify == \E n \in EnvNames : Notify(n)

\* A file is renamed out of work_dir: it is gone from the directory and
\* inotify queues an IN_MOVED_FROM event (part of IN_MOVE) carrying its name.
Moved(n) ==
    /\ UNCHANGED fixed
    /\ nEvents < MaxEvents
    /\ nEvents' = nEvents + 1
    /\ dir' = dir \ {n}
    /\ events' = Append(events, inotify_event(n, {"IN_MOVED_FROM"}))
    /\ UNCHANGED <<file_list, file_count, file_list_mutex, file_list_cond,
                   wait_cond, sent_timestamp, stream_start_timestamp,
                   dummy_file_path, wpc, first_scan, namelist, buf, tmp,
                   wret, spc, log, last>>

EnvMoved == \E n \in dir : Moved(n)

\* g_ctx.exit becomes 1.  No statement of udp.c assigns the flag after
\* udp_init; the write stands for whatever outside the two threads sets it.
SetExit ==
    /\ exit = 0
    /\ exit' = 1
    /\ UNCHANGED <<start_wait_interval, current_timestamp, reads_after_exit,
                   startup, sending>>
    /\ UNCHANGED <<file_list, file_count, file_list_mutex, file_list_cond,
                   wait_cond, sent_timestamp, stream_start_timestamp,
                   dummy_file_path, wpc, first_scan, namelist, buf, tmp,
                   wret, spc, dir, events, nEvents, log, last>>

\* Something happens to a subdirectory of work_dir (mkdir, chmod, a rename
\* into or out of work_dir): inotify queues an event with IN_ISDIR set.  The
\* files of work_dir stay as they are.
DirEvent(n, m) ==
    /\ UNCHANGED fixed
    /\ n \notin dir
    /\ nEvents < MaxEvents
    /\ nEvents' = nEvents + 1
    /\ events' = Append(events, inotify_event(n, m \cup {"IN_ISDIR"}))
    /\ UNCHANGED <<file_list, file_count, file_list_mutex, file_list_cond,
                   wait_cond, sent_timestamp, stream_start_timestamp,
                   dummy_file_path, wpc, first_scan, namelist, buf, tmp,
                   wret, spc, dir, log, last>>

\* Names of subdirectories, and the event bits the kernel reports for them.
DirNames == {N2, N3}
DirMasks == {{"IN_CREATE"}, {"IN_ATTRIB"}, {"IN_MOVED_FROM"}, {"IN_MOVED_TO"}}

EnvDirEvent == \E n \in DirNames, m \in DirMasks : DirEvent(n, m)

\* The call returns whoever holds the mutex.
pthread_mutex_lock_no_wait(mutex) == TRUE

\* pthread_mutex_lock(&mutex) returns: the mutex is free (the caller owns it
\* from then on; the action that calls it sets the owner).
pthread_mutex_lock(mutex) == mutex = "free"

\* ------------------------------------------------------- watcher thread
\* add_file_after(tmp) called with file_list_mutex held, then the unlock.
InsertLocked(t) ==
    LET r == add_file_after(file_list, t)
    IN  /\ file_list' = r.list
        /\ file_count' = IF r.added THEN file_count + 1 ELSE file_count
        /\ wait_cond' = IF r.signal /\ spc = "waiting" THEN TRUE ELSE wait_cond
        /\ last' = [op |-> "add", seg |-> t, pre |-> file_list,
                    added |-> r.added, signal |-> r.signal]
        /\ file_list_mutex' = "free"

\* The descriptor add_by_file_name builds for an accepted name.
new_file_infor(filename) ==
    [file_path |-> filename,
     timestamp |-> strtoi(filename) * TIME_SCALE,
     dummy_flag |-> IF strrchr_dot(filename) = SUFFIX_DUMMY THEN 1 ELSE 0]

\* add_by_file_name(filename), returning to position ret of the caller.
add_by_file_name(filename, ret) ==
    IF strtoi(filename) = 0
    THEN /\ wpc' = ret
         /\ UNCHANGED <<file_list, file_count, file_list_mutex, file_list_cond,
                        wait_cond, last, tmp, wret>>
    ELSE /\ pthread_mutex_lock(file_list_mutex)
         /\ IF strrchr_dot(filename) = SUFFIX_TMP
            THEN /\ wpc' = ret
                 /\ UNCHANGED <<file_list, file_count, file_list_mutex,
                                file_list_cond, wait_cond, last, tmp, wret>>
            ELSE IF list_full(file_count)
            THEN /\ wpc' = "cond_wait"
                 /\ tmp' = new_file_infor(filename)
                 /\ wret' = ret
                 /\ file_list_cond' = FALSE
                 /\ UNCHANGED <<file_list, file_count, file_list_mutex,
                                wait_cond, last>>
            ELSE /\ InsertLocked(new_file_infor(filename))
                 /\ wpc' = ret
                 /\ UNCHANGED <<file_list_cond, tmp, wret>>

\* The entries readdir delivers for work_dir: its files, "." and "..".
readdir(d) ==
    {[d_name |-> n, d_type |-> "DT_REG"] : n \in d}
        \cup {[d_name |-> n, d_type |-> "DT_DIR"] : n \in {Dot, DotDot}}

custom_filter(pDir) ==
    /\ pDir.d_type # "DT_DIR"
    /\ pDir.d_name # Dot
    /\ pDir.d_name # DotDot

\* scandir(dirpath, &namelist, custom_filter, alphasort).
scandir(d) == alphasort({e.d_name : e \in {x \in readdir(d) : custom_filter(x)}})

\* add_by_file_name(filename) when calloc returns NULL: the name has passed
\* the strtoi and ".tmp" tests, file_list_mutex is locked, and the function
\* returns without unlocking it.
add_by_file_name_nomem(filename, ret) ==
    /\ strtoi(filename) # 0
    /\ pthread_mutex_lock(file_list_mutex)
    /\ strrchr_dot(filename) # SUFFIX_TMP
    /\ file_list_mutex' = "watcher"
    /\ wpc' = ret
    /\ UNCHANGED <<file_list, file_count, file_list_cond, wait_cond, last,
                   tmp, wret>>

\* scan_dir: an iteration of the loop over namelist in which calloc fails.
ScanNextNoMem ==
    /\ UNCHANGED fixed
    /\ wpc = "scan"
    /\ namelist # <<>>
    /\ namelist' = Tail(namelist)
    /\ add_by_file_name_nomem(Head(namelist), "scan")
    /\ UNCHANGED <<sent_timestamp, stream_start_timestamp, dummy_file_path,
                   first_scan, buf, spc, dir, events, nEvents, log>>

\* event_loop: an event of the buffer for which calloc fails.
EventNextNoMem ==
    /\ UNCHANGED fixed
    /\ wpc = "events"
    /\ buf # <<>>
    /\ buf' = Tail(buf)
    /\ event_passes(Head(buf).mask)
    /\ add_by_file_name_nomem(Head(buf).name, "events")
    /\ UNCHANGED <<sent_timestamp, stream_start_timestamp, dummy_file_path,
                   first_scan, namelist, spc, dir, events, nEvents, log>>

\* event_loop: inotify_init or inotify_add_watch fails and event_loop returns
\* -1 before its loop.  The watcher thread ends; main, which is in
\* pthread_join, and the sender thread are not told.  Nothing reads `events`
\* from here on.
InotifyFails ==
    /\ UNCHANGED fixed
    /\ wpc = "loop"
    /\ first_scan = 1
    /\ nEvents = 0
    /\ wpc' = "returned"
    /\ UNCHANGED <<file_list, file_count, file_list_mutex, file_list_cond,
                   wait_cond, sent_timestamp, stream_start_timestamp,
                   dummy_file_path, first_scan, namelist, buf, tmp, wret, spc,
                   dir, events, nEvents, log, last>>

\* event_loop: while (!g_ctx.exit) finds the flag set on entry; the watcher
\* thread returns.
WatcherReturns ==
    /\ UNCHANGED fixed
    /\ wpc = "loop"
    /\ exit = 1
    /\ wpc' = "returned"
    /\ UNCHANGED <<file_list, file_count, file_list_mutex, file_list_cond,
                   wait_cond, sent_timestamp, stream_start_timestamp,
                   dummy_file_path, first_scan, namelist, buf, tmp, wret, spc,
                   dir, events, nEvents, log, last>>

\* event_loop: read(fd) returns -1 (EINTR); the inner while loop ends, and
\* the outer loop, with first_scan = 0, either finds the flag set or calls
\* read again.
ReadFails ==
    /\ UNCHANGED fixed
    /\ wpc = "read"
    /\ wpc' = IF exit = 1 THEN "returned" ELSE "read"
    /\ UNCHANGED <<file_list, file_count, file_list_mutex, file_list_cond,
                   wait_cond, sent_timestamp, stream_start_timestamp,
                   dummy_file_path, first_scan, namelist, buf, tmp, wret, spc,
                   dir, events, nEvents, log, last>>

\* event_loop, first iteration: scan_dir(work_dir, NULL) lists the directory.
ScanDir ==
    /\ UNCHANGED fixed
    /\ wpc = "loop"
    /\ exit = 0
    /\ first_scan = 1
    /\ namelist' = scandir(dir)
    /\ first_scan' = 0
    /\ wpc' = "scan"
    /\ UNCHANGED <<file_list, file_count, file_list_mutex, file_list_cond,
                   wait_cond, sent_timestamp, stream_start_timestamp,
                   dummy_file_path, buf, tmp, wret, spc, dir, events, nEvents,
                   log, last>>

\* scan_dir: one iteration of the loop over namelist.
ScanNext ==
    /\ UNCHANGED fixed
    /\ wpc = "scan"
    /\ namelist # <<>>
    /\ namelist' = Tail(namelist)
    /\ add_by_file_name(Head(namelist), "scan")
    /\ UNCHANGED <<sent_timestamp, stream_start_timestamp, dummy_file_path,
                   first_scan, buf, spc, dir, events, nEvents, log>>

\* scan_dir returns; event_loop goes on to read(fd).
ScanDone ==
    /\ UNCHANGED fixed
    /\ wpc = "scan"
    /\ namelist = <<>>
    /\ wpc' = "read"
    /\ UNCHANGED <<file_list, file_count, file_list_mutex, file_list_cond,
                   wait_cond, sent_timestamp, stream_start_timestamp,
                   dummy_file_path, first_scan, namelist, buf, tmp, wret, spc,
                   dir, events, nEvents, log, last>>

\* read(fd, buf, sizeof(buf) - 1) returns the queued events; the buffer
\* (BUFSIZ bytes) has room for all the events a run of the model generates.
ReadEvents ==
    /\ UNCHANGED <<start_wait_interval, current_timestamp, exit, startup,
                   sending>>
    /\ reads_after_exit' = IF exit = 1 /\ reads_after_exit < 2
                           THEN reads_after_exit + 1
                           ELSE reads_after_exit
    /\ wpc = "read"
    /\ events # <<>>
    /\ buf' = events
    /\ events' = <<>>
    /\ wpc' = "events"
    /\ UNCHANGED <<file_list, file_count, file_list_mutex, file_list_cond,
                   wait_cond, sent_timestamp, stream_start_timestamp,
                   dummy_file_path, first_scan, namelist, tmp, wret, spc,
                   dir, nEvents, log, last>>

\* event_loop: one event of the buffer; scan_dir(NULL, event->name) when the
\* mask passes the test, nothing otherwise.
EventNext ==
    /\ UNCHANGED fixed
    /\ wpc = "events"
    /\ buf # <<>>
    /\ buf' = Tail(buf)
    /\ IF event_passes(Head(buf).mask)
       THEN add_by_file_name(Head(buf).name, "events")
       ELSE UNCHANGED <<file_list, file_count, file_list_mutex, file_list_cond,
                        wait_cond, last, tmp, wret, wpc>>
    /\ UNCHANGED <<sent_timestamp, stream_start_timestamp, dummy_file_path,
                   first_scan, namelist, spc, dir, events, nEvents, log>>

\* The buffer is used up; the inner while loop reads again.
EventsDone ==
    /\ UNCHANGED fixed
    /\ wpc = "events"
    /\ buf = <<>>
    /\ wpc' = "read"
    /\ UNCHANGED <<file_list, file_count, file_list_mutex, file_list_cond,
                   wait_cond, sent_timestamp, stream_start_timestamp,
                   dummy_file_path, first_scan, namelist, buf, tmp, wret, spc,
                   dir, events, nEvents, log, last>>

\* add_by_file_name: pthread_cond_wait returns (signalled, mutex reacquired);
\* the while condition is tested again.
CondWaitWake ==
    /\ UNCHANGED fixed
    /\ wpc = "cond_wait"
    /\ file_list_cond
    /\ pthread_mutex_lock(file_list_mutex)
    /\ IF list_full(file_count)
       THEN /\ file_list_cond' = FALSE
            /\ UNCHANGED <<file_list, file_count, file_list_mutex, wait_cond,
                           last, wpc, tmp, wret>>
       ELSE /\ InsertLocked(tmp)
            /\ wpc' = wret
            /\ tmp' = NoSeg
            /\ wret' = "none"
            /\ file_list_cond' = FALSE
    /\ UNCHANGED <<sent_timestamp, stream_start_timestamp, dummy_file_path,
                   first_scan, namelist, buf, spc, dir, events, nEvents, log>>

\* -------------------------------------------------------- sender thread
\* The stall loop waits whatever dummy_file_path is.
stall_ignoring_template(n, template) == n <= 0

\* on_request: while (!g_ctx.exit), where the sender goes on from the end
\* of an iteration of its outer loop.
on_request_top(flag) == IF flag = 0 THEN "check" ELSE "returned"

\* The condition of on_request's stall loop.
stall(n, template) == n <= 0 /\ template

\* on_request: the test of the stall loop,
\* while (g_ctx.file_count <= 0 && g_ctx.dummy_file_path).
\* file_count is read without file_list_mutex.
StallCheck ==
    /\ UNCHANGED fixed
    /\ spc = "check"
    /\ spc' = IF stall(file_count, dummy_file_path) THEN "prewait" ELSE "lock"
    /\ UNCHANGED <<file_list, file_count, file_list_mutex, file_list_cond,
                   wait_cond, sent_timestamp, stream_start_timestamp,
                   dummy_file_path, wpc, first_scan, namelist, buf, tmp, wret,
                   dir, events, nEvents, log, last>>

\* pthread_mutex_lock(&wait_mutex); the deadline is computed and
\* pthread_cond_timedwait starts waiting.  A signal sent before this point
\* is not remembered by the condition variable.
TimedWait ==
    /\ UNCHANGED fixed
    /\ spc = "prewait"
    /\ spc' = "waiting"
    /\ wait_cond' = FALSE
    /\ UNCHANGED <<file_list, file_count, file_list_mutex, file_list_cond,
                   sent_timestamp, stream_start_timestamp, dummy_file_path,
                   wpc, first_scan, namelist, buf, tmp, wret, dir, events,
                   nEvents, log, last>>

\* pthread_cond_timedwait returns 0 (signalled); wait_mutex is unlocked and
\* the stall loop tests its condition again.
WaitSignalled ==
    /\ UNCHANGED fixed
    /\ spc = "waiting"
    /\ wait_cond
    /\ wait_cond' = FALSE
    /\ spc' = "check"
    /\ UNCHANGED <<file_list, file_count, file_list_mutex, file_list_cond,
                   sent_timestamp, stream_start_timestamp, dummy_file_path,
                   wpc, first_scan, namelist, buf, tmp, wret, dir, events,
                   nEvents, log, last>>

\* The name copy_dummy_file gives the copy: "<tail timestamp + 1 unit>.dummy",
\* or "1.dummy" when get_list_tail returns NULL.  The list is read without
\* file_list_mutex.
dummy_name(q) ==
    IF get_list_tail(q) # <<>>
    THEN itoa((get_list_tail(q)[1].timestamp + TIME_SCALE) \div TIME_SCALE) \o SUFFIX_DUMMY
    ELSE <<"1">> \o SUFFIX_DUMMY

\* The copy is also linked at the tail of the list.
copy_dummy_file_queueing(k, result) ==
    /\ nEvents + k <= MaxEvents
    /\ nEvents' = nEvents + k
    /\ dir' = dir \cup {dummy_name(file_list)}
    /\ events' = events \o
         [i \in 1..k |->
            inotify_event(dummy_name(file_list),
                          IF i = 1 /\ dummy_name(file_list) \notin dir
                          THEN {"IN_CREATE"} ELSE {"IN_MODIFY"})]
    /\ last' = [op |-> result,
                seg |-> new_file_infor(dummy_name(file_list)),
                pre |-> file_list, added |-> FALSE, signal |-> FALSE]
    /\ file_list' = add_file_tail(file_list, new_file_infor(dummy_name(file_list)))
    /\ file_count' = file_count + 1

\* copy_dummy_file once the copy has been created in work_dir under the
\* name dummy_name: inotify queues an IN_CREATE event and, when bytes were
\* written, an IN_MODIFY event for it.  result is "filler" when the copy is
\* complete (ret = 0) and "filler_error" when a read or a write failed
\* (ret = -1); the file stays in work_dir either way.  The list is only
\* read (get_list_tail).
copy_dummy_file(k, result) ==
    /\ UNCHANGED <<file_list, file_count>>
    /\ nEvents + k <= MaxEvents
    /\ nEvents' = nEvents + k
    /\ dir' = dir \cup {dummy_name(file_list)}
    /\ events' = events \o
         [i \in 1..k |->
            inotify_event(dummy_name(file_list),
                          IF i = 1 /\ dummy_name(file_list) \notin dir
                          THEN {"IN_CREATE"} ELSE {"IN_MODIFY"})]
    /\ last' = [op |-> result,
                seg |-> new_file_infor(dummy_name(file_list)),
                pre |-> file_list, added |-> FALSE, signal |-> FALSE]

\* The wait has no deadline.
timedwait_without_deadline(signalled) == FALSE

\* pthread_cond_timedwait returns ETIMEDOUT: the deadline, now +
\* send_dummy_interval, passes with no signal received.
timedwait_expires(signalled) == ~signalled

\* pthread_cond_timedwait returns ETIMEDOUT, copy_dummy_file runs, and
\* wait_mutex is unlocked; on_request ignores what copy_dummy_file returns.
Timeout ==
    /\ UNCHANGED fixed
    /\ spc = "waiting"
    /\ timedwait_expires(wait_cond)
    /\ spc' = "check"
    /\ UNCHANGED <<file_list_mutex, file_list_cond,
                   wait_cond, sent_timestamp, stream_start_timestamp,
                   dummy_file_path, wpc, first_scan, namelist, buf, tmp, wret,
                   log>>

\* The template or the destination cannot be opened: nothing is created.
CopyNotOpened ==
    Timeout /\ UNCHANGED <<dir, events, nEvents, last, file_list, file_count>>

\* The copy is written completely.
CopyDone == Timeout /\ \E k \in 1..2 : copy_dummy_file(k, "filler")

\* A read or a write fails with an error other than EINTR.
CopyError == Timeout /\ \E k \in 1..2 : copy_dummy_file(k, "filler_error")

WaitTimeout == CopyNotOpened \/ CopyDone \/ CopyError

\* pthread_mutex_lock(&g_ctx.file_list_mutex).
SenderLock ==
    /\ UNCHANGED fixed
    /\ spc = "lock"
    /\ pthread_mutex_lock(file_list_mutex)
    /\ file_list_mutex' = "sender"
    /\ spc' = "locked"
    /\ UNCHANGED <<file_list, file_count, file_list_cond, wait_cond,
                   sent_timestamp, stream_start_timestamp, dummy_file_path,
                   wpc, first_scan, namelist, buf, tmp, wret, dir, events,
                   nEvents, log, last>>

\* The list is empty: list_for_each_safe has no iteration; unlock.
SenderUnlockEmpty ==
    /\ UNCHANGED fixed
    /\ spc = "locked"
    /\ file_list = <<>>
    /\ file_list_mutex' = "free"
    /\ spc' = on_request_top(exit)
    /\ UNCHANGED <<file_list, file_count, file_list_cond, wait_cond,
                   sent_timestamp, stream_start_timestamp, dummy_file_path,
                   wpc, first_scan, namelist, buf, tmp, wret, dir, events,
                   nEvents, log, last>>

\* The stream start is overwritten by every segment.
wait_time_every_segment(file_timestamp) == file_timestamp

\* wait_time: the first segment ever scheduled sets the stream start.
wait_time(file_timestamp) ==
    IF stream_start_timestamp = -1 THEN file_timestamp ELSE stream_start_timestamp

\* wait_time: the argument of usleep, 0 when usleep is not called.
usleep_time(file_timestamp) ==
    IF /\ stream_start_timestamp = -1
       /\ file_timestamp + start_wait_interval > current_timestamp
    THEN start_wait_interval
    ELSE 0

\* send_file(file_item) for the first entry of the list: wait_time, open,
\* and the transmission of the file's bytes when the open succeeded.
SendFile ==
    /\ UNCHANGED fixed
    /\ spc = "locked"
    /\ file_list # <<>>
    /\ stream_start_timestamp' = wait_time(Head(file_list).timestamp)
    /\ log' = Append(log, [timestamp |-> Head(file_list).timestamp,
                           dummy_flag |-> Head(file_list).dummy_flag,
                           opened |-> Head(file_list).file_path \in dir,
                           sleep |-> usleep_time(Head(file_list).timestamp),
                           exit |-> exit])
    /\ spc' = "sent"
    /\ UNCHANGED <<file_list, file_count, file_list_mutex, file_list_cond,
                   wait_cond, sent_timestamp, dummy_file_path, wpc, first_scan,
                   namelist, buf, tmp, wret, dir, events, nEvents, last>>

\* The bytes of a file of n bytes: byte i has the value i, so that a byte
\* left out, repeated or out of place shows.
FileBytes(n) == [i \in 1..n |-> i]

\* send_file up to its loop, for the first entry of the list: wait_time,
\* open and fstat.  A file that is in work_dir opens and has some size; for
\* a file that is not, open returns -1, fstat fails and file_len keeps the
\* 0 calloc gave it.
SendFileOpen ==
    /\ UNCHANGED <<start_wait_interval, current_timestamp, exit,
                   reads_after_exit, startup>>
    /\ spc = "locked"
    /\ file_list # <<>>
    /\ stream_start_timestamp' = wait_time(Head(file_list).timestamp)
    /\ log' = Append(log, [timestamp |-> Head(file_list).timestamp,
                           dummy_flag |-> Head(file_list).dummy_flag,
                           opened |-> Head(file_list).file_path \in dir,
                           sleep |-> usleep_time(Head(file_list).timestamp),
                           exit |-> exit])
    /\ \E n \in 0..MaxFileLen :
           /\ Head(file_list).file_path \notin dir => n = 0
           /\ sending' = [NotSending EXCEPT !.file = FileBytes(n),
                                            !.file_len = n]
    /\ spc' = "send_loop"
    /\ UNCHANGED <<file_list, file_count, file_list_mutex, file_list_cond,
                   wait_cond, sent_timestamp, dummy_file_path, wpc, first_scan,
                   namelist, buf, tmp, wret, dir, events, nEvents, last>>

\* The buffer takes one byte more than send_buf_size.
readn_one_more(f, pos, n) ==
    SubSeq(f, pos + 1, IF pos + n + 1 < Len(f) THEN pos + n + 1 ELSE Len(f))

\* readn(fd, vptr, n) when no read fails: read is called until n bytes are
\* stored or the end of the file is reached; the result is the bytes of
\* the file from offset pos on, n at most.
readn(f, pos, n) ==
    SubSeq(f, pos + 1, IF pos + n < Len(f) THEN pos + n ELSE Len(f))

\* The unprimed locals of the sender that the steps of send_file's loop
\* leave alone.
send_file_frame ==
    UNCHANGED <<start_wait_interval, current_timestamp, exit,
                reads_after_exit, startup,
                file_list, file_count, file_list_mutex, file_list_cond,
                wait_cond, sent_timestamp, stream_start_timestamp,
                dummy_file_path, wpc, first_scan, namelist, buf, tmp, wret,
                dir, events, nEvents, log, last>>

\* send_file: the outer loop's test holds and readn fills send_buf; with
\* nothing read the loop is left.
SendLoopRead ==
    /\ spc = "send_loop"
    /\ sending.total_send_bytes < sending.file_len
    /\ LET b == readn(sending.file, sending.offset, UDP_PACKET_SIZE)
       IN  /\ sending' = [sending EXCEPT !.send_buf = b,
                                         !.read_bytes = Len(b),
                                         !.offset = @ + Len(b),
                                         !.send_bytes = 0]
           /\ spc' = IF Len(b) <= 0 THEN "sent" ELSE "sendto"
    /\ send_file_frame

\* send_file: a read inside readn fails with an error other than EINTR;
\* readn returns -1 and the loop is left.  Nothing reads the descriptor or
\* the buffer afterwards.
ReadnFails ==
    /\ spc = "send_loop"
    /\ sending.total_send_bytes < sending.file_len
    /\ sending' = [sending EXCEPT !.read_bytes = -1]
    /\ spc' = "sent"
    /\ send_file_frame

\* send_file: total_send_bytes has reached file_len; send_file returns.
SendLoopEnd ==
    /\ spc = "send_loop"
    /\ ~(sending.total_send_bytes < sending.file_len)
    /\ spc' = "sent"
    /\ UNCHANGED sending
    /\ send_file_frame

\* The datagram handed to sendto: send_buf + send_bytes,
\* read_bytes - send_bytes bytes.
payload(b, sent, len) == SubSeq(b, sent + 1, len)

\* A failed call counts as bytes sent.
send_bytes_after_abs(sent, block_len) ==
    IF block_len > 0 THEN sent + block_len ELSE sent - block_len

\* send_file: send_bytes after a sendto call that returned block_len.
send_bytes_after(sent, block_len) ==
    IF block_len > 0 THEN sent + block_len ELSE sent

\* send_file: sendto accepts the datagram and returns its length.
SendToDone ==
    /\ spc = "sendto"
    /\ sending.send_bytes < sending.read_bytes
    /\ sending' =
          [sending EXCEPT
             !.datagrams = Append(@, payload(sending.send_buf,
                                             sending.send_bytes,
                                             sending.read_bytes)),
             !.send_bytes = send_bytes_after(@, sending.read_bytes - @)]
    /\ UNCHANGED spc
    /\ send_file_frame

\* send_file: sendto returns -1; the failure is logged and the inner loop
\* goes round again.
SendToFails ==
    /\ spc = "sendto"
    /\ sending.send_bytes < sending.read_bytes
    /\ sending' =
          [sending EXCEPT
             !.send_bytes = send_bytes_after(@, -1),
             !.send_errors = IF @ < MaxSendErrors THEN @ + 1 ELSE @]
    /\ UNCHANGED spc
    /\ send_file_frame

\* send_file: the inner loop ends; total_send_bytes is advanced and
\* send_buf is cleared (memset).
ChunkDone ==
    /\ spc = "sendto"
    /\ ~(sending.send_bytes < sending.read_bytes)
    /\ sending' =
          [sending EXCEPT
             !.total_send_bytes = @ + sending.send_bytes,
             !.send_buf = [i \in 1..Len(@) |-> 0]]
    /\ spc' = "send_loop"
    /\ send_file_frame

\* send_file, one statement of its loop at a time.
SendFileSteps ==
    \/ SendFileOpen
    \/ SendLoopRead
    \/ ReadnFails
    \/ SendLoopEnd
    \/ SendToDone
    \/ SendToFails
    \/ ChunkDone

\* The entry at the tail is unlinked instead of the one passed in.
remove_list_tail(q) == SubSeq(q, 1, Len(q) - 1)

\* remove_list_file(NULL): nothing is unlinked.
remove_list_file_null(q) == q

\* remove_list_file(file_item) for the head: list_del unlinks it.
remove_list_file(q) == Tail(q)

\* The signal is not sent.
cond_signal_lost(waiting, signalled) == signalled

\* pthread_cond_signal: a thread waiting on the condition is woken; with no
\* thread waiting the signal has no effect.
cond_signal(waiting, signalled) == IF waiting THEN TRUE ELSE signalled

\* Every processed file is removed.
removes_every_file(file_item) == TRUE

\* on_request: remove(file_item->file_path) is called for dummy segments.
removes_file(file_item) == file_item.dummy_flag # 0

\* on_request after send_file: the watermark or the removal of the dummy
\* copy, remove_list_file, pthread_cond_signal(&file_list_cond), break, unlock.
SenderRemove ==
    /\ UNCHANGED fixed
    /\ spc = "sent"
    /\ sent_timestamp' = IF Head(file_list).dummy_flag = 0
                         THEN Head(file_list).timestamp
                         ELSE sent_timestamp
    /\ dir' = IF removes_file(Head(file_list))
              THEN dir \ {Head(file_list).file_path}
              ELSE dir
    /\ file_list' = remove_list_file(file_list)
    /\ file_count' = file_count - 1
    /\ file_list_cond' = cond_signal(wpc = "cond_wait", file_list_cond)
    /\ file_list_mutex' = "free"
    /\ last' = [op |-> "remove", seg |-> Head(file_list), pre |-> file_list,
                added |-> FALSE, signal |-> FALSE]
    /\ spc' = on_request_top(exit)
    /\ UNCHANGED <<wait_cond, stream_start_timestamp, dummy_file_path, wpc,
                   first_scan, namelist, buf, tmp, wret, events, nEvents, log>>

\* ------------------------------------------------------- specification
Watcher ==
    \/ ScanDir
    \/ ScanNext
    \/ ScanDone
    \/ ReadEvents
    \/ EventNext
    \/ EventsDone
    \/ CondWaitWake

Sender ==
    \/ StallCheck
    \/ TimedWait
    \/ WaitSignalled
    \/ WaitTimeout
    \/ SenderLock
    \/ SenderUnlockEmpty
    \/ SendFile
    \/ SenderRemove

Next == EnvNotify \/ EnvMoved \/ Watcher \/ Sender

Spec == Init /\ [][Next]_vars

\* The same runs under the scheduling the liveness claims rely on: the
\* sender thread keeps running (a timed wait ends, a lock that is free is
\* taken, a transmission completes), and a watcher that has been signalled
\* gets file_list_mutex at one of the moments the sender has released it.
SpecLive == Init /\ [][Next]_vars /\ WF_vars(Sender) /\ SF_vars(CondWaitWake)

\* A batch run: names with pairwise distinct timestamps, no more than the
\* list holds, are all inserted (by the first scan and by events that follow
\* it) before the sender starts, and the sender then empties the list with
\* no insert in between.  No template is
\* configured, so the sender never waits.
BatchNames == {N1, N2, N3, N10}

InitBatch ==
    /\ Init
    /\ ~dummy_file_path

NotifyBatch ==
    \E n \in BatchNames \ dir :
        /\ Cardinality(dir) < MAX_UDP_FILE_COUNT
        /\ wpc # "loop"
        /\ spc = "check"
        /\ log = <<>>
        /\ Notify(n)

WatcherBatch ==
    /\ spc = "check"
    /\ log = <<>>
    /\ \/ ScanDir
       \/ ScanNext
       \/ ScanDone
       \/ ReadEvents
       \/ EventNext
       \/ EventsDone

SenderBatch ==
    /\ wpc = "read"
    /\ events = <<>>
    /\ \/ StallCheck
       \/ SenderLock
       \/ SenderUnlockEmpty
       \/ SendFile
       \/ SenderRemove

NextBatch == NotifyBatch \/ WatcherBatch \/ SenderBatch

SpecBatch == InitBatch /\ [][NextBatch]_vars

\* A run over a directory that holds every kind of name, followed by events
\* for further names.  No template is configured.
FilterDir == {N100, N100tmp, Nabc, N0, N200dummy}
FilterNames == {N07, N3a, Na9, N5dummytmp, N7tmpdummy}

InitFilter ==
    /\ InitCommon
    /\ ~dummy_file_path
    /\ dir = FilterDir
    /\ start_wait_interval = 0
    /\ current_timestamp = 0

NotifyFilter == \E n \in FilterNames : Notify(n)

NextFilter ==
    \/ NotifyFilter
    \/ Watcher
    \/ StallCheck
    \/ SenderLock
    \/ SenderUnlockEmpty
    \/ SendFile
    \/ SenderRemove

SpecFilter == InitFilter /\ [][NextFilter]_vars

\* Runs with a start offset: start_wait_interval is 0 or the value option
\* -t 2 gives, and current_timestamp is what get_current_time returns in
\* wait_time: before every file timestamp, between them, after them.
\* No template is configured.
WaitIntervals == {0, 2 * TIME_SCALE}
ClockReadings == {0, 2 * TIME_SCALE + 500000, 20 * TIME_SCALE}

InitPacing ==
    /\ InitCommon
    /\ ~dummy_file_path
    /\ dir \in InitDirs
    /\ start_wait_interval \in WaitIntervals
    /\ current_timestamp \in ClockReadings

NextPacing ==
    \/ EnvNotify
    \/ Watcher
    \/ StallCheck
    \/ SenderLock
    \/ SenderUnlockEmpty
    \/ SendFile
    \/ SenderRemove

SpecPacing == InitPacing /\ [][NextPacing]_vars

\* Runs in which every copy of the template breaks off with a read or write
\* error, and the external producer delivers real segments only.  With the
\* template configured the sender leaves the stall loop only when
\* file_count > 0, so it never finds the list empty under the lock.
RealNames == {N1, N2, N3}

InitCopyFail ==
    /\ InitCommon
    /\ dummy_file_path
    /\ dir \in InitDirs
    /\ start_wait_interval = 0
    /\ current_timestamp = 0

NotifyReal == \E n \in RealNames : Notify(n)

NextCopyFail ==
    \/ NotifyReal
    \/ Watcher
    \/ StallCheck
    \/ TimedWait
    \/ WaitSignalled
    \/ CopyError
    \/ SenderLock
    \/ SendFile
    \/ SenderRemove

SpecCopyFail == InitCopyFail /\ [][NextCopyFail]_vars

\* Runs in which work_dir has subdirectories with numeric names.  No
\* template is configured.
InitDirEvents ==
    /\ Init
    /\ ~dummy_file_path

NextDirEvents ==
    \/ EnvNotify
    \/ EnvDirEvent
    \/ Watcher
    \/ StallCheck
    \/ SenderLock
    \/ SenderUnlockEmpty
    \/ SendFile
    \/ SenderRemove

SpecDirEvents == InitDirEvents /\ [][NextDirEvents]_vars

\* Runs in which the subscription to work_dir may fail at startup.
NextWatchFail == InotifyFails \/ Next

SpecWatchFail == Init /\ [][NextWatchFail]_vars

\* Runs in which the allocation of a descriptor may fail.
NextAllocFail == ScanNextNoMem \/ EventNextNoMem \/ Next

SpecAllocFail == Init /\ [][NextAllocFail]_vars

\* Runs in which the shutdown flag is set at some moment, under the
\* scheduling that lets each thread that can take a step take one.
NextShutdown ==
    \/ SetExit
    \/ EnvNotify
    \/ WatcherReturns
    \/ ReadFails
    \/ Watcher
    \/ Sender

SpecShutdown ==
    Init /\ [][NextShutdown]_vars
         /\ WF_vars(Sender)
         /\ WF_vars(WatcherReturns \/ ReadFails \/ Watcher)

\* Runs without a template in which send_file is followed through its
\* loop, with sendto and read failing at any call.
InitSend ==
    /\ InitCommon
    /\ ~dummy_file_path
    /\ dir \in InitDirs
    /\ start_wait_interval = 0
    /\ current_timestamp = 0

NextSend ==
    \/ EnvNotify
    \/ EnvMoved
    \/ Watcher
    \/ StallCheck
    \/ SenderLock
    \/ SenderUnlockEmpty
    \/ SendFileSteps
    \/ SenderRemove

SpecSend == InitSend /\ [][NextSend]_vars

\* Runs of the first scan alone over two files whose digit runs lie on both
\* sides of the range of int.
WideNames ==
    {<<"1">>, <<"2">>, <<"5", "1", "1">>, <<"5", "1", "2">>,
     <<"5", "1", "3">>, <<"6", "0", "0">>, <<"1", "0", "2", "4">>,
     <<"1", "0", "2", "5">>, <<"2", "0", "4", "9">>,
     <<"5", "1", "3">> \o SUFFIX_DUMMY}

InitTimestamp ==
    /\ InitCommon
    /\ ~dummy_file_path
    /\ dir \in {{a, b} : a, b \in WideNames}
    /\ start_wait_interval = 0
    /\ current_timestamp = 0

NextTimestamp == ScanDir \/ ScanNext \/ ScanDone

SpecTimestamp == InitTimestamp /\ [][NextTimestamp]_vars

\* ------------------------------------------------------------------ main
\* One scalar keyword of udpproxy.conf with its value.
keyword(k, value) == [keyword |-> k, value |-> value]

\* optarg for each option letter.  ip and port take an argument in both
\* forms.  start_wait_interval and work_dir have an optional argument in
\* long_options and none in short_options ("i:p:tw"): optarg is NULL for
\* "-t 2", "-w c" and for the long form written without "=value".
OptArgs(c) ==
    CASE c = "i" -> {<<"a">>}
      [] c = "p" -> {N1}
      [] c = "t" -> {N2, NULL}
      [] c = "w" -> {<<"c">>, NULL}

Options(c) == {<<>>} \cup {<<option(c, a)>> : a \in OptArgs(c)}

\* The command lines: each option written at most once.
CommandLines ==
    {i \o p \o t \o w : i \in Options("i"), p \in Options("p"),
                        t \in Options("t"), w \in Options("w")}

ConfValue(k) ==
    CASE k = "ip" -> <<"b">>
      [] k = "port" -> N2
      [] k = "work_dir" -> <<"d">>
      [] k = "start_wait_interval" -> N3

Keywords(k) == {<<>>, <<keyword(k, ConfValue(k))>>}

\* The configuration files: each keyword written at most once.
ConfigFiles ==
    {i \o p \o w \o t : i \in Keywords("ip"), p \in Keywords("port"),
                        w \in Keywords("work_dir"),
                        t \in Keywords("start_wait_interval")}

\* The values an int read without having been written can have.
Indeterminate == {0, 7}

\* strtoi as main calls it on optarg: "if (!s) return;" returns no value,
\* and the caller reads an indeterminate int.
strtoi_results(s) == IF s = NULL THEN Indeterminate ELSE {strtoi(s)}

\* strdup(NULL) reads through the null pointer: the process is killed by
\* SIGSEGV, or the call returns NULL.
strdup_results(s) == IF s = NULL THEN {"SIGSEGV", NULL} ELSE {s}

\* udp_init, and main before its first call of getopt_long.
InitStartup ==
    /\ InitWorkers
    /\ dir = {}
    /\ dummy_file_path = FALSE
    /\ start_wait_interval = 0
    /\ current_timestamp = 0
    /\ \E a \in CommandLines, f \in ConfigFiles :
           startup = [mpc |-> "getopt", argv |-> a, optind |-> 1,
                      conf |-> f, kp |-> 1,
                      ip_addr |-> NULL, port |-> -1, work_dir |-> NULL]

workers == <<file_list, file_count, file_list_mutex, file_list_cond,
             wait_cond, sent_timestamp, stream_start_timestamp,
             dummy_file_path, wpc, first_scan, namelist, buf, tmp, wret,
             spc, dir, events, nEvents, current_timestamp, exit,
             reads_after_exit, sending, log, last>>

\* main: one pass of the getopt_long loop, the switch on the option letter.
GetOpt ==
    /\ startup.mpc = "getopt"
    /\ startup.optind <= Len(startup.argv)
    /\ LET c == startup.argv[startup.optind].c
           l_opt_arg == startup.argv[startup.optind].optarg
           next == [startup EXCEPT !.optind = @ + 1]
       IN  CASE c = "i" ->
                 /\ startup' = [next EXCEPT !.ip_addr = l_opt_arg]
                 /\ UNCHANGED start_wait_interval
             [] c = "p" ->
                 /\ startup' = [next EXCEPT !.port = strtoi(l_opt_arg)]
                 /\ UNCHANGED start_wait_interval
             [] c = "t" ->
                 /\ \E r \in strtoi_results(l_opt_arg) :
                        start_wait_interval' = r * TIME_SCALE
                 /\ startup' = next
             [] c = "w" ->
                 /\ \E r \in strdup_results(l_opt_arg) :
                        startup' = IF r = "SIGSEGV"
                                   THEN [next EXCEPT !.mpc = "killed"]
                                   ELSE [next EXCEPT !.work_dir = r]
                 /\ UNCHANGED start_wait_interval
    /\ UNCHANGED workers

\* main: getopt_long returns -1; udpproxy.conf is read.
GetOptEnd ==
    /\ startup.mpc = "getopt"
    /\ startup.optind > Len(startup.argv)
    /\ startup' = [startup EXCEPT !.mpc = "config"]
    /\ UNCHANGED start_wait_interval
    /\ UNCHANGED workers

\* main: the if / else if chain on one keyword and its value; g is g_ctx.
config_keyword(g, k, value) ==
    IF k = "ip" /\ g.ip_addr = NULL
        THEN [g EXCEPT !.ip_addr = value]
    ELSE IF k = "port" /\ g.port = -1
        THEN [g EXCEPT !.port = strtoi(value)]
    ELSE IF k = "work_dir" /\ g.work_dir = NULL
        THEN [g EXCEPT !.work_dir = value]
    ELSE IF k = "start_wait_interval" /\ g.start_wait_interval # 0
        THEN [g EXCEPT !.start_wait_interval = strtoi(value)]
    ELSE g

\* main: one pass of the loop over the keywords of a section.
ConfigKeyword ==
    /\ startup.mpc = "config"
    /\ startup.kp <= Len(startup.conf)
    /\ LET g == config_keyword([ip_addr |-> startup.ip_addr,
                                port |-> startup.port,
                                work_dir |-> startup.work_dir,
                                start_wait_interval |-> start_wait_interval],
                               startup.conf[startup.kp].keyword,
                               startup.conf[startup.kp].value)
       IN  /\ startup' = [startup EXCEPT !.kp = @ + 1,
                                         !.ip_addr = g.ip_addr,
                                         !.port = g.port,
                                         !.work_dir = g.work_dir]
           /\ start_wait_interval' = g.start_wait_interval
    /\ UNCHANGED workers

\* main: the loops over sections and keywords end.
ConfigEnd ==
    /\ startup.mpc = "config"
    /\ startup.kp > Len(startup.conf)
    /\ startup' = [startup EXCEPT !.mpc = "check"]
    /\ UNCHANGED start_wait_interval
    /\ UNCHANGED workers

\* main: the test of the required settings.
CheckSettings ==
    /\ startup.mpc = "check"
    /\ startup' =
          [startup EXCEPT
             !.mpc = IF \/ startup.ip_addr = NULL
                        \/ startup.port = -1
                        \/ startup.work_dir = NULL
                     THEN "usage"
                     ELSE "create"]
    /\ UNCHANGED start_wait_interval
    /\ UNCHANGED workers

\* main: the two printf calls of the usage sample; the statements after the
\* if follow (log_init, the dump of the configuration).
Usage ==
    /\ startup.mpc = "usage"
    /\ startup' = [startup EXCEPT !.mpc = "create"]
    /\ UNCHANGED start_wait_interval
    /\ UNCHANGED workers

\* main: both pthread_create calls succeed; main waits in pthread_join.
CreateThreads ==
    /\ startup.mpc = "create"
    /\ startup' = [startup EXCEPT !.mpc = "join"]
    /\ UNCHANGED start_wait_interval
    /\ UNCHANGED workers

\* main: a pthread_create call fails; main returns -2.
CreateFails ==
    /\ startup.mpc = "create"
    /\ startup' = [startup EXCEPT !.mpc = "returned"]
    /\ UNCHANGED start_wait_interval
    /\ UNCHANGED workers

\* main from udp_init to pthread_join, for every command line and every
\* configuration file drawn.
NextStartup ==
    \/ GetOpt
    \/ GetOptEnd
    \/ ConfigKeyword
    \/ ConfigEnd
    \/ CheckSettings
    \/ Usage
    \/ CreateThreads
    \/ CreateFails

SpecStartup == InitStartup /\ [][NextStartup]_vars

\* ---------------------------------------------------------------- claims
Timestamps(q) == {q[i].timestamp : i \in 1..Len(q)}

Ascending(q) == \A i \in 1..(Len(q) - 1) : q[i].timestamp < q[i + 1].timestamp

\* The segments whose file was opened and sent, in the order of sending.
Transmitted == SelectSeq(log, LAMBDA e : e.opened)

RECURSIVE SortedSeq(_)
SortedSeq(S) ==
    IF S = {} THEN <<>>
    ELSE LET m == CHOOSE x \in S : \A y \in S : x <= y
         IN  <<m>> \o SortedSeq(S \ {m})

\* The last operation on the list was add_file_after for a timestamp that
\* was not in the list.
AddedFresh == last.op = "add" /\ last.seg.timestamp \notin Timestamps(last.pre)

\* The last operation on the list was add_file_after for a timestamp that
\* was already in the list.
AddedDuplicate == last.op = "add" /\ last.seg.timestamp \in Timestamps(last.pre)

\* C1: in a batch run (distinct timestamps inserted in any order, then
\* removed with no insert in between), once the list has been emptied the
\* removed segments are the inserted ones, in strictly ascending order of
\* timestamp.
C1_BatchRemovedAscending ==
    (wpc = "read" /\ events = <<>> /\ file_list = <<>> /\ spc = "check")
        => [i \in 1..Len(log) |-> log[i].timestamp]
             = SortedSeq({strtoi(n) * TIME_SCALE : n \in dir})

\* C2: an insert of a timestamp that is not queued makes the segment a
\* member of the list and raises file_count by one; it stands right after
\* the entries with a smaller timestamp and before those with a larger one.
C2_FreshInsertIsQueued ==
    AddedFresh =>
        /\ last.added
        /\ Len(file_list) = Len(last.pre) + 1
        /\ \E i \in 1..Len(file_list) :
            /\ file_list[i] = last.seg
            /\ SubSeq(file_list, 1, i - 1) = SubSeq(last.pre, 1, i - 1)
            /\ SubSeq(file_list, i + 1, Len(file_list)) = SubSeq(last.pre, i, Len(last.pre))
            /\ \A j \in 1..(i - 1) : file_list[j].timestamp < last.seg.timestamp
            /\ \A j \in (i + 1)..Len(file_list) : file_list[j].timestamp > last.seg.timestamp

\* C3: the segments are transmitted in strictly ascending order of
\* timestamp over the whole run.
C3_TransmittedAscending == Ascending(Transmitted)

\* C4: a segment handed to insert is discarded only when its timestamp is
\* already queued: after every insert the timestamp is in the list.
C4_DiscardedOnlyIfQueued ==
    last.op = "add" => last.seg.timestamp \in Timestamps(file_list)

\* C5: the list is strictly ascending by timestamp from head to tail in
\* every reachable state (so no two entries share a timestamp).
C5_ListAscending == Ascending(file_list)

\* C5 witness: an insert that went between two queued entries.
C5_Witness ==
    /\ last.op = "add"
    /\ last.added
    /\ Len(file_list) >= 3
    /\ file_list[2] = last.seg

\* C6: an insert of a timestamp that is already queued changes nothing: the
\* list, its order and file_count stay as they were, and the entry queued
\* first keeps its dummy flag.
C6_DuplicateIsNoOp ==
    AddedDuplicate =>
        /\ file_list = last.pre
        /\ ~last.added
        /\ file_count = Len(last.pre)

\* C6 witness: a duplicate whose dummy flag differs from the queued entry's.
C6_Witness ==
    /\ AddedDuplicate
    /\ \E i \in 1..Len(file_list) :
        /\ file_list[i].timestamp = last.seg.timestamp
        /\ file_list[i].dummy_flag # last.seg.dummy_flag

\* The watcher is about to hand an accepted name to add_by_file_name.
AcceptedName(n) == strtoi(n) # 0 /\ strrchr_dot(n) # SUFFIX_TMP

AttemptsInsert ==
    \/ wpc = "scan" /\ namelist # <<>> /\ AcceptedName(Head(namelist))
         /\ namelist' = Tail(namelist)
    \/ wpc = "events" /\ buf # <<>> /\ AcceptedName(Head(buf).name)
         /\ event_passes(Head(buf).mask)
         /\ buf' = Tail(buf)

\* C7: file_count and the length of the list never exceed the capacity; an
\* insert attempted at capacity blocks the watcher and keeps the segment
\* (nothing is dropped, the list is unchanged), and the blocked insert is
\* carried out only when a removal has brought file_count below capacity.
C7_Backpressure ==
    /\ [](/\ file_count <= MAX_UDP_FILE_COUNT
          /\ Len(file_list) <= MAX_UDP_FILE_COUNT
          /\ (wpc = "cond_wait" => tmp # NoSeg))
    /\ [][/\ (AttemptsInsert /\ file_count >= MAX_UDP_FILE_COUNT)
               => /\ wpc' = "cond_wait"
                  /\ tmp' # NoSeg
                  /\ file_list' = file_list
                  /\ file_count' = file_count
          /\ (wpc = "cond_wait" /\ wpc' # "cond_wait")
               => /\ file_count < MAX_UDP_FILE_COUNT
                  /\ last' = [op |-> "add", seg |-> tmp, pre |-> file_list,
                              added |-> add_file_after(file_list, tmp).added,
                              signal |-> add_file_after(file_list, tmp).signal]
          /\ (wpc = "cond_wait" /\ file_count' < file_count)
               => /\ last'.op = "remove"
                  /\ file_list_cond']_vars

\* C7 witness: the watcher is blocked on a full list, the sender has removed
\* the head and signalled, and the insert can now proceed.
C7_Witness ==
    /\ wpc = "cond_wait"
    /\ file_list_cond
    /\ file_count = MAX_UDP_FILE_COUNT - 1
    /\ last.op = "remove"

\* C8: no timestamp is transmitted twice.
C8_TransmittedOnce ==
    \A i, j \in 1..Len(Transmitted) :
        Transmitted[i].timestamp = Transmitted[j].timestamp => i = j

\* C9: every insert that adds a segment signals wait_cond.
C9_InsertSignals == (last.op = "add" /\ last.added) => last.signal

\* C10: copy_dummy_file runs only while the list is empty.
C10_FillerOnlyOnEmptyList == last.op = "filler" => last.pre = <<>>

\* Number of leading digits of a name.
RECURSIVE DigitRun(_)
DigitRun(n) == IF n = <<>> \/ ~IsDigit(Head(n)) THEN 0 ELSE 1 + DigitRun(Tail(n))

RECURSIVE Pow10(_)
Pow10(k) == IF k = 0 THEN 1 ELSE 10 * Pow10(k - 1)

RECURSIVE SumTo(_, _)
SumTo(f, k) == IF k = 0 THEN 0 ELSE f[k] + SumTo(f, k - 1)

\* Value of the leading digit run of a name, positionally.
LeadingValue(n) ==
    LET k == DigitRun(n)
    IN  SumTo([i \in 1..k |-> DigitVal(n[i]) * Pow10(k - i)], k)

EndsIn(n, suffix) ==
    /\ Len(n) >= Len(suffix)
    /\ SubSeq(n, Len(n) - Len(suffix) + 1, Len(n)) = suffix

\* The segment the filtering rule prescribes for a name that yields one.
SegmentOf(n) ==
    [file_path |-> n,
     timestamp |-> LeadingValue(n) * TIME_SCALE,
     dummy_flag |-> IF EndsIn(n, SUFFIX_DUMMY) THEN 1 ELSE 0]

YieldsSegment(n) == LeadingValue(n) # 0 /\ ~EndsIn(n, SUFFIX_TMP)

\* The watcher takes name n from the scan list or from the event buffer.
Takes(n) ==
    \/ wpc = "scan" /\ namelist # <<>> /\ n = Head(namelist)
          /\ namelist' = Tail(namelist)
    \/ wpc = "events" /\ buf # <<>> /\ n = Head(buf).name
          /\ "IN_ISDIR" \notin Head(buf).mask
          /\ buf' = Tail(buf)

RealTransmitted == SelectSeq(Transmitted, LAMBDA e : e.dummy_flag = 0)

\* C11: a dummy file synthesized while the list is empty is named for the
\* timestamp of the last real segment transmitted plus one time unit, and
\* for one time unit when nothing was ever transmitted.
C11_GapFillTimestamp ==
    (last.op = "filler" /\ last.pre = <<>>) =>
        /\ RealTransmitted # <<>> =>
              last.seg.timestamp
                = RealTransmitted[Len(RealTransmitted)].timestamp + TIME_SCALE
        /\ Transmitted = <<>> => last.seg.timestamp = TIME_SCALE

\* C12: no step lowers sent_timestamp.
C12_WatermarkMonotone == [][sent_timestamp' >= sent_timestamp]_vars

\* C13: sent_timestamp changes only in the step after send_file has opened
\* and sent the file of a real segment, and then becomes that segment's
\* timestamp; dummy segments and segments whose file could not be opened
\* leave it alone.
C13_WatermarkOnlyAfterRealSent ==
    [][sent_timestamp' # sent_timestamp =>
          /\ spc = "sent"
          /\ log # <<>>
          /\ log[Len(log)].opened
          /\ log[Len(log)].dummy_flag = 0
          /\ sent_timestamp' = log[Len(log)].timestamp]_vars

\* C14: the step that finishes a dummy segment leaves no file of its name
\* in work_dir, the step that finishes a real segment leaves work_dir as it
\* was, a file disappears from work_dir only by an external rename or as the
\* dummy segment being finished, and the only file the program writes is
\* one with the ".dummy" suffix.
C14_FileLifecycle ==
    /\ [][(spc = "sent" /\ spc' = "check") =>
            IF Head(file_list).dummy_flag = 1
            THEN Head(file_list).file_path \notin dir'
            ELSE dir' = dir]_vars
    /\ [][\A n \in dir \ dir' :
            \/ events' = Append(events, inotify_event(n, {"IN_MOVED_FROM"}))
            \/ /\ spc = "sent"
               /\ Head(file_list).dummy_flag = 1
               /\ Head(file_list).file_path = n]_vars
    /\ [](last.op \in {"filler", "filler_error"} =>
            /\ EndsIn(last.seg.file_path, SUFFIX_DUMMY)
            /\ last.seg.dummy_flag = 1)

\* C14 witness: a dummy segment was opened, sent and removed and its file is
\* gone, while a real file transmitted before it is still in work_dir.
C14_Witness ==
    /\ last.op = "remove"
    /\ last.seg.dummy_flag = 1
    /\ last.seg.file_path \notin dir
    /\ Len(log) >= 2
    /\ log[Len(log)].opened
    /\ log[Len(log)].dummy_flag = 1
    /\ \E n \in dir : /\ new_file_infor(n).dummy_flag = 0
                       /\ new_file_infor(n).timestamp = log[1].timestamp
                       /\ log[1].opened

Max0(x) == IF x > 0 THEN x ELSE 0

\* C16: the sleep before the first segment ever sent is exactly
\* max(0, timestamp + start_wait_interval - now).
C16_FirstSleepIsRemainder ==
    log # <<>> =>
        log[1].sleep
            = Max0(log[1].timestamp + start_wait_interval - current_timestamp)

\* C17: stream_start_timestamp is unset until the first segment is
\* scheduled, is then that segment's timestamp and never changes again, and
\* no segment after the first is sent with a sleep.
C17_StreamStartSetOnce ==
    /\ [](IF log = <<>>
          THEN stream_start_timestamp = -1
          ELSE stream_start_timestamp = log[1].timestamp)
    /\ [][stream_start_timestamp # -1
            => stream_start_timestamp' = stream_start_timestamp]_vars
    /\ [](\A i \in 2..Len(log) : log[i].sleep = 0)

\* C17 witness: the first segment was sent after a sleep, and a second one
\* with another timestamp, still ahead of the clock, was sent after it.
C17_Witness ==
    /\ Len(log) >= 2
    /\ log[1].sleep > 0
    /\ log[2].timestamp # log[1].timestamp
    /\ log[2].timestamp + start_wait_interval > current_timestamp
    /\ stream_start_timestamp = log[1].timestamp

\* C18: without a template the sender never enters the timed wait and never
\* runs copy_dummy_file, and a sender step taken on an empty list sends
\* nothing and leaves the list, its count, the watermark and work_dir alone.
C18_NoTemplateNoFiller ==
    /\ [](~dummy_file_path =>
            /\ spc \notin {"prewait", "waiting"}
            /\ last.op \notin {"filler", "filler_error"})
    /\ [][(~dummy_file_path /\ file_list = <<>> /\ spc' # spc) =>
            UNCHANGED <<log, file_list, file_count, sent_timestamp, dir>>]_vars

\* C18 witness: no template, a segment has been sent, and the sender holds
\* the lock over an empty list.
C18_Witness ==
    /\ ~dummy_file_path
    /\ file_list = <<>>
    /\ file_count = 0
    /\ spc = "locked"
    /\ sent_timestamp # 0

\* C19: when the file of the head segment cannot be opened, send_file sends
\* nothing for it, and the sender goes on to unlink the head, lower
\* file_count, signal a watcher blocked on the full list, release the lock
\* and start its next iteration.
C19_OpenFailureDropsSegment ==
    /\ [][(/\ spc = "locked"
            /\ file_list # <<>>
            /\ Head(file_list).file_path \notin dir
            /\ spc' # spc) =>
               /\ spc' = "sent"
               /\ Transmitted' = Transmitted
               /\ file_list' = file_list]_vars
    /\ [][(/\ spc = "sent"
            /\ ~log[Len(log)].opened
            /\ spc' # spc) =>
               /\ file_list' = Tail(file_list)
               /\ file_count' = file_count - 1
               /\ (wpc = "cond_wait" => file_list_cond')
               /\ file_list_mutex' = "free"
               /\ spc' = "check"]_vars

\* C19 witness: the head's file could not be opened, the segment has been
\* removed, and the watcher blocked on the full list has been signalled.
C19_Witness ==
    /\ last.op = "remove"
    /\ log # <<>>
    /\ ~log[Len(log)].opened
    /\ log[Len(log)].timestamp = last.seg.timestamp
    /\ last.seg.file_path \notin dir
    /\ wpc = "cond_wait"
    /\ file_list_cond
    /\ file_count = MAX_UDP_FILE_COUNT - 1
    /\ spc = "check"

\* C20: when every copy of the template fails with a read or write error
\* and only real segments arrive from outside, no dummy segment is ever
\* queued.
C20_FailedCopyNeverQueued ==
    \A i \in 1..Len(file_list) : file_list[i].dummy_flag = 0

\* The largest timestamp of a non-empty list.
MaxTimestamp(q) == CHOOSE t \in Timestamps(q) : \A u \in Timestamps(q) : u <= t

C26_QueueAccessUnderLock ==
    [][/\ (spc = "check" /\ spc' # spc) => file_list_mutex = "sender"
       /\ (spc = "prewait" /\ spc' # spc) => file_list_mutex = "sender"
       /\ (spc = "waiting" /\ spc' # spc /\ last' # last)
             => file_list_mutex = "sender"
       /\ (spc = "locked" /\ spc' # spc) => file_list_mutex = "sender"
       /\ (spc = "sent" /\ spc' # spc) => file_list_mutex = "sender"]_vars

\* C21: an event with IN_ISDIR set, whatever other bits it carries, is
\* passed over by the watcher: no insert is attempted for its name.
C21_DirEventNeverInserts ==
    [][(/\ wpc = "events"
        /\ buf # <<>>
        /\ "IN_ISDIR" \in Head(buf).mask
        /\ buf' = Tail(buf)) =>
           /\ UNCHANGED <<file_list, file_count, last, tmp>>
           /\ wpc' = "events"]_vars

\* C24: once inotify_init or inotify_add_watch has failed the process is
\* over: the sender thread takes no further step.
C24_WatchFailureFatal == [][wpc = "returned" => spc' = spc]_vars

\* C25: once the allocation of a descriptor has failed (the watcher has
\* returned from add_by_file_name with file_list_mutex still locked) the
\* process is over: neither thread takes a further step.
C25_AllocFailureFatal ==
    [][file_list_mutex = "watcher" =>
          /\ wpc' = wpc
          /\ spc' = spc
          /\ namelist' = namelist
          /\ buf' = buf]_vars

\* C22: with g_ctx.exit set the watcher completes at most one read, the one
\* it was blocked in, and inserts nothing that a later read delivered.
C22_WatcherStopsAfterShutdown == reads_after_exit <= 1

\* The segments handed to send_file while g_ctx.exit was set.
SentAfterExit == SelectSeq(log, LAMBDA e : e.exit = 1)

\* C23: with g_ctx.exit set the sender hands at most one more segment to
\* send_file, and then finds the flag at the top of its loop and returns.
C23_SenderStopsAfterShutdown ==
    /\ [](Len(SentAfterExit) <= 1)
    /\ (exit = 1) ~> (spc = "returned")

\* What the command line gives for option letter c: its optarg, NULL when
\* the option is not written.
CommandLine(c) ==
    LET S == {i \in 1..Len(startup.argv) : startup.argv[i].c = c}
    IN  IF S = {} THEN NULL ELSE startup.argv[CHOOSE i \in S : TRUE].optarg

\* What udpproxy.conf gives for keyword k, NULL when it is not written.
ConfigFile(k) ==
    LET S == {i \in 1..Len(startup.conf) : startup.conf[i].keyword = k}
    IN  IF S = {} THEN NULL ELSE startup.conf[CHOOSE i \in S : TRUE].value

\* Every option written on the command line carries its value.
ValuesGiven == \A i \in 1..Len(startup.argv) : startup.argv[i].optarg # NULL

\* main is past the command line and the configuration file.
Merged == startup.mpc \in {"check", "usage", "create", "join", "returned"}

\* C27: once the command line and the configuration file are merged, each of
\* ip, port, work_dir and start_wait_interval has the command-line value when
\* the command line gives one, the configuration-file value when only the
\* file gives one, and the value of udp_init when neither does.
C27_CommandLineOverridesConfig ==
    (Merged /\ ValuesGiven) =>
        /\ startup.ip_addr =
               IF CommandLine("i") # NULL THEN CommandLine("i")
               ELSE ConfigFile("ip")
        /\ startup.port =
               IF CommandLine("p") # NULL THEN strtoi(CommandLine("p"))
               ELSE IF ConfigFile("port") # NULL
                    THEN strtoi(ConfigFile("port"))
                    ELSE -1
        /\ startup.work_dir =
               IF CommandLine("w") # NULL THEN CommandLine("w")
               ELSE ConfigFile("work_dir")
        /\ start_wait_interval =
               IF CommandLine("t") # NULL
               THEN strtoi(CommandLine("t")) * TIME_SCALE
               ELSE IF ConfigFile("start_wait_interval") # NULL
                    THEN strtoi(ConfigFile("start_wait_interval"))
                    ELSE 0

\* C28: the two threads are created only when ip, port and work_dir are all
\* set: main never reaches pthread_join with one of them missing.
C28_MissingSettingStopsStartup ==
    (startup.mpc = "join") =>
        /\ startup.ip_addr # NULL
        /\ startup.port # -1
        /\ startup.work_dir # NULL

\* The entries of a list, as a set.
Linked(q) == {q[i] : i \in 1..Len(q)}

\* The step is the sender's return from pthread_cond_timedwait with
\* ETIMEDOUT, copy_dummy_file included.
TimeoutStep == spc = "waiting" /\ ~wait_cond /\ spc' = "check"

\* The segment the watcher is about to hand to add_file_after: the one of
\* the next name of the scan, of the next event, or the one it holds across
\* pthread_cond_wait.
WatcherHolds(seg) ==
    \/ wpc = "scan" /\ namelist # <<>> /\ seg = new_file_infor(Head(namelist))
    \/ wpc = "events" /\ buf # <<>> /\ seg = new_file_infor(Head(buf).name)
    \/ wpc = "cond_wait" /\ seg = tmp

\* C31: the step in which the stall wait times out and copy_dummy_file runs
\* leaves the list and file_count as they are; and a dummy segment that is
\* newly linked is linked by a step of the watcher's add_file_after, for a
\* name the watcher took from the scan of work_dir or from an event, while
\* the sender stays where it is.
C31_GapFillerLeavesQueue ==
    [][/\ TimeoutStep => (file_list' = file_list /\ file_count' = file_count)
       /\ \A seg \in Linked(file_list') \ Linked(file_list) :
              seg.dummy_flag = 1 =>
                  /\ WatcherHolds(seg)
                  /\ last'.op = "add" /\ last'.seg = seg /\ last'.added
                  /\ spc' = spc]_vars

\* The filler "1.dummy", which only copy_dummy_file creates, has been linked
\* by the watcher.
C31_Witness ==
    /\ last.op = "add"
    /\ last.added
    /\ last.seg.file_path = <<"1">> \o SUFFIX_DUMMY
    /\ last.seg \in Linked(file_list)

\* The payloads of a sequence of datagrams, one after the other.
RECURSIVE Concat(_)
Concat(ds) == IF ds = <<>> THEN <<>> ELSE Head(ds) \o Concat(Tail(ds))

\* C32: every datagram sendto accepted carries between 1 and UDP_PACKET_SIZE
\* bytes; while a file is being sent the payloads accepted so far, put
\* together, are the first bytes of the file, in order; and when send_file
\* returns without a failed read they are the whole file, however many
\* sendto calls failed in between.
C32_PayloadsAreTheFile ==
    /\ \A i \in 1..Len(sending.datagrams) :
           /\ Len(sending.datagrams[i]) >= 1
           /\ Len(sending.datagrams[i]) <= UDP_PACKET_SIZE
    /\ spc \in {"send_loop", "sendto", "sent"} =>
           /\ Len(Concat(sending.datagrams)) <= Len(sending.file)
           /\ Concat(sending.datagrams) =
                  SubSeq(sending.file, 1, Len(Concat(sending.datagrams)))
    /\ (spc = "sent" /\ sending.read_bytes # -1) =>
           Concat(sending.datagrams) = sending.file

\* send_file has returned for a file of MaxFileLen bytes that took more than
\* one chunk, with a failed sendto call on the way and no failed read.
C32_Witness ==
    /\ spc = "sent"
    /\ sending.read_bytes # -1
    /\ Len(sending.file) = MaxFileLen
    /\ Len(sending.datagrams) >= 2
    /\ sending.send_errors >= 1

\* The sender is in send_file's inner loop with bytes of send_buf that no
\* datagram has carried yet.
Unsent == spc = "sendto" /\ sending.send_bytes < sending.read_bytes

\* C33: while bytes of the chunk read last are unsent, a step in which
\* sendto accepts no datagram (a failed call among them) leaves the sender
\* in the inner loop with the same buffer and the same unsent bytes: no
\* chunk is read, the list, file_count and the watermark stay as they are.
\* The inner loop is left only when the datagrams accepted carry every byte
\* read so far.
C33_FailedSendRetries ==
    [][/\ (Unsent /\ sending'.datagrams = sending.datagrams) =>
              /\ spc' = "sendto"
              /\ sending'.send_bytes = sending.send_bytes
              /\ sending'.send_buf = sending.send_buf
              /\ sending'.read_bytes = sending.read_bytes
              /\ sending'.offset = sending.offset
              /\ sending'.total_send_bytes = sending.total_send_bytes
              /\ file_list' = file_list
              /\ file_count' = file_count
              /\ sent_timestamp' = sent_timestamp
              /\ log' = log
       /\ (spc = "sendto" /\ spc' # "sendto") =>
              Concat(sending.datagrams) = SubSeq(sending.file, 1, sending.offset)]_vars

\* sendto has failed MaxSendErrors times at least while the second chunk of
\* a file is unsent.
C33_Witness ==
    /\ Unsent
    /\ sending.send_errors = MaxSendErrors
    /\ Len(sending.datagrams) >= 1

\* C34: a segment handed to add_file_after has the value of its name's
\* leading digit run, times TIME_SCALE, as its timestamp; and no segment in
\* the list whose leading digit run has another value has the same
\* timestamp.
C34_TimestampIsDigitRun ==
    last.op = "add" =>
        /\ last.seg.timestamp % TIME_SCALE = 0
        /\ last.seg.timestamp \div TIME_SCALE = LeadingValue(last.seg.file_path)
        /\ \A s \in Linked(last.pre) :
               LeadingValue(s.file_path) # LeadingValue(last.seg.file_path)
                   => s.timestamp # last.seg.timestamp

\* The sender is between pthread_mutex_lock(&file_list_mutex) and the
\* unlock at the end of the iteration: before send_file (and with it the
\* delay of the first segment), in its loop, or before remove_list_file.
SenderInside == spc \in {"locked", "send_loop", "sendto", "sent"}

\* C35: from its lock to its unlock the sender owns file_list_mutex; in that
\* stretch the list changes only by the sender's removal of the head, no
\* step of add_by_file_name that needs the mutex is taken (no insert, no
\* duplicate found, no return from pthread_cond_wait), and with the head
\* not yet removed the list is the one the sender found.
C35_SenderHoldsLockWhileSending ==
    /\ [](SenderInside => file_list_mutex = "sender")
    /\ [][SenderInside =>
              /\ \/ file_list' = file_list
                 \/ spc = "sent" /\ file_list' = Tail(file_list)
              /\ last' # last => (spc = "sent" /\ last'.op = "remove")
              /\ wpc = "cond_wait" => wpc' = "cond_wait"]_vars

\* The watcher has a name of the scan to insert, or waits in
\* pthread_cond_wait with the signal sent, while the sender retries a
\* failed sendto with file_list_mutex held.
C35_Witness ==
    /\ Unsent
    /\ sending.send_errors >= 1
    /\ file_list_mutex = "sender"
    /\ \/ wpc = "scan" /\ namelist # <<>> /\ strtoi(Head(namelist)) # 0
       \/ wpc = "events" /\ buf # <<>> /\ strtoi(Head(buf).name) # 0

\* C36: whenever the watcher is outside add_by_file_name (in scan_dir's or
\* event_loop's loops, or returned) it does not own file_list_mutex.
C36_InsertReleasesLock ==
    wpc \in {"loop", "scan", "read", "events", "returned"}
        => file_list_mutex # "watcher"

\* Both threads wait on a condition variable: the watcher in
\* pthread_cond_wait, the sender in pthread_cond_timedwait.
BothWaiting == wpc = "cond_wait" /\ spc = "waiting"

\* C37: the watcher waits in pthread_cond_wait without a signal on its way
\* only with the list full, so the sender has a head to send; the two
\* threads never stay in their waits together for ever; and the sender's
\* wait always ends.
C37_NoJointBlocking ==
    /\ [](wpc = "cond_wait" /\ ~file_list_cond =>
              file_count = MAX_UDP_FILE_COUNT /\ file_list # <<>>)
    /\ []<>(~BothWaiting)
    /\ (spc = "waiting") ~> (spc # "waiting")

\* The sender found the list empty and waits, its signal missed; the
\* watcher has filled the list since and waits for room.
C37_Witness ==
    /\ BothWaiting
    /\ ~wait_cond
    /\ ~file_list_cond
    /\ file_count = MAX_UDP_FILE_COUNT

\* C38: with file_list_mutex free, file_count is the number of entries of
\* the list and lies in 0..MAX_UDP_FILE_COUNT; a step raises file_count, by
\* one, exactly when it links an entry, and lowers it, by one, exactly when
\* it unlinks one.
C38_CountIsListLength ==
    /\ [](file_list_mutex = "free" =>
              /\ file_count = Len(file_list)
              /\ file_count >= 0
              /\ file_count <= MAX_UDP_FILE_COUNT)
    /\ [][/\ file_count' - file_count \in {-1, 0, 1}
          /\ file_count' - file_count = Len(file_list') - Len(file_list)
          /\ (file_count' = file_count + 1) <=>
                 (last'.op = "add" /\ last'.added /\ last'.pre = file_list)
          /\ (file_count' = file_count - 1) <=>
                 (file_list # <<>> /\ file_list' = Tail(file_list)
                     /\ last'.op = "remove")]_vars

\* The head of a full list has been unlinked and the lock released, after an
\* insert that was discarded as a duplicate earlier in the run or not.
C38_Witness ==
    /\ last.op = "remove"
    /\ Len(last.pre) = MAX_UDP_FILE_COUNT
    /\ file_list_mutex = "free"
    /\ file_count = MAX_UDP_FILE_COUNT - 1


====
